---- MODULE Spec2Model ----
(***************************************************************************)
(* Cost-governed chat pipeline of fullstack-chat-minimal: the usage        *)
(* ledger (api_usage), the per-user quota rows (user_cost_limits), the     *)
(* quota guard (lib/limitChecker), the pricing functions (lib/pricing)     *)
(* and the chat route handler (app/api/chat/route.ts POST).                *)
(*                                                                         *)
(* Money is counted in units of 1e-8 USD so that every price of the price  *)
(* table is an integer per token.  Time is counted in ticks; a calendar    *)
(* day is TicksPerDay ticks and a calendar month DaysPerMonth days, so     *)
(* that Date.getDate/getMonth/getFullYear comparisons become comparisons   *)
(* of DayOf and MonthOf.  Every atomic action is one access to the shared  *)
(* store (or one external call) together with the synchronous code around  *)
(* it; the awaits of the source are the interleaving points.               *)
(***************************************************************************)
EXTENDS Integers, Sequences, FiniteSets, Bags, TLC

VARIABLES
    clock,          \* the wall clock (new Date()), in ticks
    ledger,         \* table api_usage: the bag of UsageRecords
    quota,          \* table user_cost_limits: a set of rows
    pc,             \* per process: the await it is parked at
    frame,          \* per process: the locals of the limitChecker call in progress
    result,         \* per process: what its last limitChecker call returned
    turn,           \* per chat turn: the request, the calls issued and the response
    pineconeConfigured, \* PINECONE_API_KEY and PINECONE_INDEX_NAME are both set
    observed,       \* per caller: the row as it stood when its first call returned (history)
    call            \* a direct call of a library function: its arguments and what it returned

vars == <<clock, ledger, quota, pc, frame, result, turn, pineconeConfigured, observed, call>>

-----------------------------------------------------------------------------
(* Bounds of the model *)

MaxClock == 4        \* the clock stops ticking here
TicksPerDay == 2     \* instants told apart within one calendar day
DaysPerMonth == 2    \* calendar days per calendar month
MaxLedger == 1       \* records appended by LogUsage in the guard harness

Users == {"u1"}
Turns == {"t1", "t2"}
Recons == {"r1", "r2"}
Procs == Turns \cup Recons
ReconOf(t) == IF t = "t1" THEN "r1" ELSE "r2"

-----------------------------------------------------------------------------
(* lib/pricing: the price table and the cost functions *)

ChatModels == {"gpt-3.5-turbo", "gpt-4", "gpt-4-turbo", "gpt-4o"}
EmbeddingModels == {"text-embedding-3-small", "text-embedding-3-large",
                    "text-embedding-ada-002"}

\* USD 1e-8 per 1K tokens
OPENAI_CHAT_PRICING(model) ==
    CASE model = "gpt-3.5-turbo" -> [input |-> 150000, output |-> 200000]
      [] model = "gpt-4"         -> [input |-> 3000000, output |-> 6000000]
      [] model = "gpt-4-turbo"   -> [input |-> 1000000, output |-> 3000000]
      [] model = "gpt-4o"        -> [input |-> 500000, output |-> 1500000]

\* USD 1e-8 per 1M tokens
OPENAI_EMBEDDING_PRICING(model) ==
    CASE model = "text-embedding-3-small" -> 2000000
      [] model = "text-embedding-3-large" -> 13000000
      [] model = "text-embedding-ada-002" -> 10000000

\* USD 1e-8 per operation
PINECONE_PRICING(operation) ==
    CASE operation = "query"  -> 10000
      [] operation = "upsert" -> 10000

\* keys that every object literal inherits from Object.prototype: a lookup
\* of one of them in a price table finds a function, not a price
ObjectPrototypeKeys == {"constructor", "toString"}

\* the result of arithmetic on undefined or on a function
NaN == -2

calculateChatCompletionCost(model, inputTokens, outputTokens) ==
    IF model \in ChatModels
    THEN LET pricing == OPENAI_CHAT_PRICING(model)
         IN  (inputTokens * pricing.input) \div 1000
             + (outputTokens * pricing.output) \div 1000
    ELSE IF model \in ObjectPrototypeKeys
    THEN NaN    \* pricing is truthy, pricing.input and pricing.output undefined
    ELSE LET defaultPricing == OPENAI_CHAT_PRICING("gpt-3.5-turbo")
         IN  (inputTokens * defaultPricing.input) \div 1000
             + (outputTokens * defaultPricing.output) \div 1000

calculateEmbeddingCost(model, tokens) ==
    IF model \in EmbeddingModels
    THEN (tokens * OPENAI_EMBEDDING_PRICING(model)) \div 1000000
    ELSE IF model \in ObjectPrototypeKeys
    THEN NaN    \* pricePerMillion is a function, which is not undefined
    ELSE (tokens * OPENAI_EMBEDDING_PRICING("text-embedding-3-small")) \div 1000000

calculatePineconeCost(operation) == PINECONE_PRICING(operation)

\* POST: the pre-flight estimate of one chat turn
estimatedCost ==
    calculateEmbeddingCost("text-embedding-3-small", 300)
    + calculateChatCompletionCost("gpt-3.5-turbo", 500, 200)
    + calculatePineconeCost("query")
    + calculatePineconeCost("upsert") * 2

-----------------------------------------------------------------------------
(* The calendar: Date.getFullYear/getMonth/getDate and setHours/setDate *)

DayOf(t) == t \div TicksPerDay
MonthOf(t) == t \div (TicksPerDay * DaysPerMonth)

startOfDay(t) == DayOf(t) * TicksPerDay
endOfDay(t) == startOfDay(t) + TicksPerDay - 1
startOfMonth(t) == MonthOf(t) * TicksPerDay * DaysPerMonth
endOfMonth(t) == startOfMonth(t) + TicksPerDay * DaysPerMonth - 1

-----------------------------------------------------------------------------
(* lib/costTracking: the ledger and its aggregate queries *)

UsageRecord(userId, operation, cost, timestamp) ==
    [userId |-> userId, operation |-> operation,
     estimatedCost |-> cost, timestamp |-> timestamp]

\* a write that replaces the table's contents
AppendRecord_Replace(l, r) == SetToBag({r})

\* prisma.apiUsage.create: one more row
AppendRecord(l, r) == l (+) SetToBag({r})

RECURSIVE SumOver(_, _)
SumOver(l, rs) ==
    IF rs = {} THEN 0
    ELSE LET r == CHOOSE x \in rs : TRUE
         IN  CopiesIn(r, l) * r.estimatedCost + SumOver(l, rs \ {r})

\* prisma.apiUsage.aggregate({ where, _sum: { estimatedCost } })
SumCost(l, userId, from, to) ==
    SumOver(l, {r \in BagToSet(l) :
                  r.userId = userId /\ r.timestamp >= from /\ r.timestamp <= to})

\* getUserCost: the aggregate, or 0 when the query throws
getUserCost(l, userId, from, to, ok) ==
    IF ok THEN SumCost(l, userId, from, to) ELSE 0

getUserDailyCost(l, userId, t, ok) ==
    getUserCost(l, userId, startOfDay(t), endOfDay(t), ok)

getUserMonthlyCost(l, userId, t, ok) ==
    getUserCost(l, userId, startOfMonth(t), endOfMonth(t), ok)

-----------------------------------------------------------------------------
(* lib/limitChecker: the quota rows *)

DefaultDailyLimit == 4500000       \* 0.045 USD
DefaultMonthlyLimit == 135000000   \* 1.35 USD

Row(userId, dailyLimit, monthlyLimit, currentDaily, currentMonthly, lrd, lrm) ==
    [userId |-> userId, dailyLimit |-> dailyLimit, monthlyLimit |-> monthlyLimit,
     currentDaily |-> currentDaily, currentMonthly |-> currentMonthly,
     lastResetDaily |-> lrd, lastResetMonthly |-> lrm]

\* the value of a local that holds no row
NullRow == Row("null", 0, 0, 0, 0, 0, 0)

\* prisma.userCostLimit.findUnique({ where: { userId } })
findUnique(q, userId) == {r \in q : r.userId = userId}

\* a row created with no allowance at all
DefaultRow_NoAllowance(userId, t) == Row(userId, 0, 0, 0, 0, t, t)

\* prisma.userCostLimit.create with the default limits; the store stamps both
\* lastReset columns with CURRENT_TIMESTAMP
DefaultRow(userId, t) ==
    Row(userId, DefaultDailyLimit, DefaultMonthlyLimit, 0, 0, t, t)

\* an update of the counter that leaves the stamp behind
UpdateDaily_KeepStamp(q, userId, cost, t) ==
    {IF r.userId = userId THEN [r EXCEPT !.currentDaily = cost] ELSE r : r \in q}

\* prisma.userCostLimit.update({ where: { userId }, data: { currentDaily, lastResetDaily } })
UpdateDaily(q, userId, cost, t) ==
    {IF r.userId = userId
     THEN [r EXCEPT !.currentDaily = cost, !.lastResetDaily = t] ELSE r : r \in q}

UpdateMonthly(q, userId, cost, t) ==
    {IF r.userId = userId
     THEN [r EXCEPT !.currentMonthly = cost, !.lastResetMonthly = t] ELSE r : r \in q}

\* prisma.userCostLimit.update({ where: { userId }, data: { currentDaily, currentMonthly } })
UpdateCurrent(q, userId, daily, monthly) ==
    {IF r.userId = userId
     THEN [r EXCEPT !.currentDaily = daily, !.currentMonthly = monthly] ELSE r : r \in q}

\* a reset that does not look at the calendar
isNewDay_Always(t, lastReset) == TRUE

isNewDay(t, lastReset) == DayOf(t) # DayOf(lastReset)
isNewMonth(t, lastReset) == MonthOf(t) # MonthOf(lastReset)

-----------------------------------------------------------------------------
(* lib/limitChecker: the result of checkUserLimits *)

\* figures = FALSE stands for a result without the four usage fields
LimitCheckResult(allowed, reason, figures, du, dl, mu, ml) ==
    [allowed |-> allowed, reason |-> reason, figures |-> figures,
     dailyUsage |-> du, dailyLimit |-> dl, monthlyUsage |-> mu, monthlyLimit |-> ml]

NoResult == LimitCheckResult(TRUE, "pending", FALSE, 0, 0, 0, 0)

\* the guard failing closed on its own errors
FailClosed ==
    LimitCheckResult(FALSE, "Error checking limits, request allowed", FALSE, 0, 0, 0, 0)

FailOpen ==
    LimitCheckResult(TRUE, "Error checking limits, request allowed", FALSE, 0, 0, 0, 0)

\* estimatedCost ? actual + estimatedCost : actual
Projected(actual, est) == IF est # 0 THEN actual + est ELSE actual

\* a boundary slip: a projection equal to the limit is rejected
ExceedsLimit_Inclusive(projected, limit) == projected >= limit

ExceedsLimit(projected, limit) == projected > limit

\* a reservation: the estimates of the turns let through and still running
\* count against the limit
LimitDecision_Reserving(row, daily, monthly, est) ==
    LET held == Cardinality({t \in Turns :
                    result[t].figures /\ result[t].allowed /\ pc[t] # "done"})
    IN  IF Projected(daily + held * estimatedCost, est) > row.dailyLimit
        THEN LimitCheckResult(FALSE, "Daily limit exceeded", TRUE,
                              daily, row.dailyLimit, monthly, row.monthlyLimit)
        ELSE LimitCheckResult(TRUE, "none", TRUE,
                              daily, row.dailyLimit, monthly, row.monthlyLimit)

\* the decision taken from the cached counters of the row
LimitDecision_Cached(row, daily, monthly, est) ==
    IF Projected(row.currentDaily, est) > row.dailyLimit
    THEN LimitCheckResult(FALSE, "Daily limit exceeded", TRUE,
                          daily, row.dailyLimit, monthly, row.monthlyLimit)
    ELSE IF Projected(row.currentMonthly, est) > row.monthlyLimit
    THEN LimitCheckResult(FALSE, "Monthly limit exceeded", TRUE,
                          daily, row.dailyLimit, monthly, row.monthlyLimit)
    ELSE LimitCheckResult(TRUE, "none", TRUE,
                          daily, row.dailyLimit, monthly, row.monthlyLimit)

\* the two checks in the other order
LimitDecision_MonthlyFirst(row, daily, monthly, est) ==
    IF Projected(monthly, est) > row.monthlyLimit
    THEN LimitCheckResult(FALSE, "Monthly limit exceeded", TRUE,
                          daily, row.dailyLimit, monthly, row.monthlyLimit)
    ELSE IF Projected(daily, est) > row.dailyLimit
    THEN LimitCheckResult(FALSE, "Daily limit exceeded", TRUE,
                          daily, row.dailyLimit, monthly, row.monthlyLimit)
    ELSE LimitCheckResult(TRUE, "none", TRUE,
                          daily, row.dailyLimit, monthly, row.monthlyLimit)

\* lines 408-450 of checkUserLimits: the decision on the refreshed row
LimitDecision(row, daily, monthly, est) ==
    IF ExceedsLimit(Projected(daily, est), row.dailyLimit)
    THEN LimitCheckResult(FALSE, "Daily limit exceeded", TRUE,
                          daily, row.dailyLimit, monthly, row.monthlyLimit)
    ELSE IF ExceedsLimit(Projected(monthly, est), row.monthlyLimit)
    THEN LimitCheckResult(FALSE, "Monthly limit exceeded", TRUE,
                          daily, row.dailyLimit, monthly, row.monthlyLimit)
    ELSE LimitCheckResult(TRUE, "none", TRUE,
                          daily, row.dailyLimit, monthly, row.monthlyLimit)

-----------------------------------------------------------------------------
(* lib/limitChecker: one call, await by await *)

\* failed: the awaits of this call whose store operation threw (history)
IdleFrame ==
    [fn |-> "none", ret |-> "idle", userId |-> "null", estimate |-> 0,
     userLimit |-> NullRow, now |-> 0, resetCost |-> 0,
     actualDaily |-> 0, actualMonthly |-> 0, failed |-> {}, faulty |-> FALSE]

\* faulty: whether the store operations of the call may throw
NewFrame(f, r, userId, est, faulty) ==
    [IdleFrame EXCEPT !.fn = f, !.ret = r, !.userId = userId, !.estimate = est,
                      !.faulty = faulty]

\* the locals die with the call; the arguments and the history stay for the claims
Returned(f) ==
    [IdleFrame EXCEPT !.fn = f.fn, !.ret = f.ret, !.userId = f.userId,
                      !.estimate = f.estimate, !.failed = f.failed]

\* the outcomes of the store operation a call is about to await
Outcomes(p) ==
    IF frame[p].faulty THEN BOOLEAN ELSE {TRUE}

\* an exception reaches the function's own catch block
Throw(p, op) ==
    LET f == [frame[p] EXCEPT !.failed = @ \cup {op}]
    IN  /\ pc' = [pc EXCEPT ![p] = f.ret]
        /\ frame' = [frame EXCEPT ![p] = Returned(f)]
        /\ result' = [result EXCEPT ![p] = IF f.fn = "check" THEN FailOpen ELSE @]

\* after getOrCreateUserLimits: the first call goes on to the resets, the
\* refresh of checkUserLimits to the ledger reads
AfterGetOrCreate(at) == IF at \in {"find1", "create1"} THEN "resetDaily" ELSE "daily"

\* getOrCreateUserLimits, findUnique
GetOrCreateFind(p) ==
    /\ pc[p] \in {"find1", "find2"}
    /\ UNCHANGED <<clock, ledger, quota, turn, pineconeConfigured, observed, call>>
    /\ \E ok \in Outcomes(p) :
         IF ~ok THEN Throw(p, pc[p])
         ELSE LET rows == findUnique(quota, frame[p].userId)
              IN  /\ UNCHANGED result
                  /\ IF rows = {}
                     THEN /\ pc' = [pc EXCEPT ![p] =
                                      IF pc[p] = "find1" THEN "create1" ELSE "create2"]
                          /\ UNCHANGED frame
                     ELSE /\ pc' = [pc EXCEPT ![p] = AfterGetOrCreate(pc[p])]
                          /\ frame' = [frame EXCEPT ![p].userLimit =
                                         CHOOSE r \in rows : TRUE]

\* getOrCreateUserLimits, create; user_cost_limits_userId_key rejects a second row
GetOrCreateCreate(p) ==
    /\ pc[p] \in {"create1", "create2"}
    /\ UNCHANGED <<clock, ledger, turn, pineconeConfigured, observed, call>>
    /\ \E ok \in Outcomes(p) :
         IF ~ok \/ findUnique(quota, frame[p].userId) # {}
         THEN /\ IF ok THEN Throw(p, "unique") ELSE Throw(p, pc[p])
              /\ UNCHANGED quota
         ELSE LET row == DefaultRow(frame[p].userId, clock)
              IN  /\ quota' = quota \cup {row}
                  /\ pc' = [pc EXCEPT ![p] = AfterGetOrCreate(pc[p])]
                  /\ frame' = [frame EXCEPT ![p].userLimit = row]
                  /\ UNCHANGED result

\* resetDailyCounterIfNeeded up to its first store access
ResetDailyBegin(p) ==
    /\ pc[p] = "resetDaily"
    /\ UNCHANGED <<clock, ledger, quota, result, turn, pineconeConfigured, observed, call>>
    /\ IF isNewDay(clock, frame[p].userLimit.lastResetDaily)
       THEN \E ok \in Outcomes(p) :
              /\ frame' = [frame EXCEPT
                     ![p].now = clock,
                     ![p].resetCost =
                         getUserDailyCost(ledger, frame[p].userId, clock, ok),
                     ![p].failed = IF ok THEN @ ELSE @ \cup {pc[p]}]
              /\ pc' = [pc EXCEPT ![p] = "resetDailyWrite"]
       ELSE /\ pc' = [pc EXCEPT ![p] = "resetMonthly"]
            /\ UNCHANGED frame

\* the update of the daily reset outside any try block: its failure reaches
\* the catch of the calling function
ResetDailyWrite_Propagates(p) ==
    /\ pc[p] = "resetDailyWrite"
    /\ UNCHANGED <<clock, ledger, turn, pineconeConfigured, observed, call>>
    /\ \E ok \in Outcomes(p) :
         IF ok /\ findUnique(quota, frame[p].userId) # {}
         THEN /\ quota' = UpdateDaily(quota, frame[p].userId,
                                      frame[p].resetCost, frame[p].now)
              /\ frame' = [frame EXCEPT ![p].now = 0, ![p].resetCost = 0]
              /\ pc' = [pc EXCEPT ![p] = "resetMonthly"]
              /\ UNCHANGED result
         ELSE /\ Throw(p, pc[p])
              /\ UNCHANGED quota

\* resetDailyCounterIfNeeded, the update; its failure is caught and logged
ResetDailyWrite(p) ==
    /\ pc[p] = "resetDailyWrite"
    /\ UNCHANGED <<clock, ledger, result, turn, pineconeConfigured, observed, call>>
    /\ pc' = [pc EXCEPT ![p] = "resetMonthly"]
    /\ \E ok \in Outcomes(p) :
         IF ok /\ findUnique(quota, frame[p].userId) # {}
         THEN /\ quota' = UpdateDaily(quota, frame[p].userId,
                                      frame[p].resetCost, frame[p].now)
              /\ frame' = [frame EXCEPT ![p].now = 0, ![p].resetCost = 0]
         ELSE /\ frame' = [frame EXCEPT ![p].now = 0, ![p].resetCost = 0,
                                        ![p].failed = @ \cup {pc[p]}]
              /\ UNCHANGED quota

\* what follows the two resets: checkUserLimits refreshes the row,
\* updateUserCostLimits goes straight to the ledger reads
AfterResets(f) == IF f = "check" THEN "find2" ELSE "daily"

\* resetMonthlyCounterIfNeeded up to its first store access
ResetMonthlyBegin(p) ==
    /\ pc[p] = "resetMonthly"
    /\ UNCHANGED <<clock, ledger, quota, result, turn, pineconeConfigured, observed, call>>
    /\ IF isNewMonth(clock, frame[p].userLimit.lastResetMonthly)
       THEN \E ok \in Outcomes(p) :
              /\ frame' = [frame EXCEPT
                     ![p].now = clock,
                     ![p].resetCost =
                         getUserMonthlyCost(ledger, frame[p].userId, clock, ok),
                     ![p].failed = IF ok THEN @ ELSE @ \cup {pc[p]}]
              /\ pc' = [pc EXCEPT ![p] = "resetMonthlyWrite"]
       ELSE /\ pc' = [pc EXCEPT ![p] = AfterResets(frame[p].fn)]
            /\ UNCHANGED frame

\* resetMonthlyCounterIfNeeded, the update; its failure is caught and logged
ResetMonthlyWrite(p) ==
    /\ pc[p] = "resetMonthlyWrite"
    /\ UNCHANGED <<clock, ledger, result, turn, pineconeConfigured, observed, call>>
    /\ pc' = [pc EXCEPT ![p] = AfterResets(frame[p].fn)]
    /\ \E ok \in Outcomes(p) :
         IF ok /\ findUnique(quota, frame[p].userId) # {}
         THEN /\ quota' = UpdateMonthly(quota, frame[p].userId,
                                        frame[p].resetCost, frame[p].now)
              /\ frame' = [frame EXCEPT ![p].now = 0, ![p].resetCost = 0]
         ELSE /\ frame' = [frame EXCEPT ![p].now = 0, ![p].resetCost = 0,
                                        ![p].failed = @ \cup {pc[p]}]
              /\ UNCHANGED quota

\* const actualDailyCost = await getUserDailyCost(userId)
ReadDaily(p) ==
    /\ pc[p] = "daily"
    /\ UNCHANGED <<clock, ledger, quota, result, turn, pineconeConfigured, observed, call>>
    /\ pc' = [pc EXCEPT ![p] = "monthly"]
    /\ \E ok \in Outcomes(p) :
         frame' = [frame EXCEPT
             ![p].actualDaily = getUserDailyCost(ledger, frame[p].userId, clock, ok),
             ![p].failed = IF ok THEN @ ELSE @ \cup {pc[p]}]

\* const actualMonthlyCost = await getUserMonthlyCost(userId), and for
\* checkUserLimits the decision and the return that follow it synchronously
ReadMonthly(p) ==
    /\ pc[p] = "monthly"
    /\ UNCHANGED <<clock, ledger, quota, turn, pineconeConfigured, observed, call>>
    /\ \E ok \in Outcomes(p) :
         LET monthly == getUserMonthlyCost(ledger, frame[p].userId, clock, ok)
             f == [frame[p] EXCEPT
                     !.actualMonthly = monthly,
                     !.failed = IF ok THEN @ ELSE @ \cup {pc[p]}]
         IN  IF f.fn = "check"
             THEN /\ result' = [result EXCEPT ![p] =
                        LimitDecision(f.userLimit, f.actualDaily, monthly, f.estimate)]
                  /\ frame' = [frame EXCEPT ![p] = Returned(f)]
                  /\ pc' = [pc EXCEPT ![p] = f.ret]
             ELSE /\ frame' = [frame EXCEPT ![p] = f]
                  /\ pc' = [pc EXCEPT ![p] = "updateWrite"]
                  /\ UNCHANGED result

\* updateUserCostLimits, the final update of the cached counters
UpdateWrite(p) ==
    /\ pc[p] = "updateWrite"
    /\ UNCHANGED <<clock, ledger, result, turn, pineconeConfigured, observed, call>>
    /\ \E ok \in Outcomes(p) :
         IF ok /\ findUnique(quota, frame[p].userId) # {}
         THEN /\ quota' = UpdateCurrent(quota, frame[p].userId,
                                        frame[p].actualDaily, frame[p].actualMonthly)
              /\ frame' = [frame EXCEPT ![p] = Returned(frame[p])]
              /\ pc' = [pc EXCEPT ![p] = frame[p].ret]
         ELSE /\ frame' = [frame EXCEPT ![p] =
                     Returned([frame[p] EXCEPT !.failed = @ \cup {pc[p]}])]
              /\ pc' = [pc EXCEPT ![p] = frame[p].ret]
              /\ UNCHANGED quota

\* one step of a limitChecker call in progress
LimitCheckerStep(p) ==
    \/ GetOrCreateFind(p)
    \/ GetOrCreateCreate(p)
    \/ ResetDailyBegin(p)
    \/ ResetDailyWrite(p)
    \/ ResetMonthlyBegin(p)
    \/ ResetMonthlyWrite(p)
    \/ ReadDaily(p)
    \/ ReadMonthly(p)
    \/ UpdateWrite(p)

\* time passes
Tick ==
    /\ clock < MaxClock
    /\ clock' = clock + 1
    /\ UNCHANGED <<ledger, quota, pc, frame, result, turn, pineconeConfigured, observed, call>>

-----------------------------------------------------------------------------
(* The guard on its own: callers of checkUserLimits and updateUserCostLimits *)
(* beside writers of the ledger                                             *)

\* limits a row can hold after setUserLimits
LimitChoices ==
    {<<estimatedCost, estimatedCost>>, <<estimatedCost, DefaultMonthlyLimit>>}

EstimateChoices == {0, estimatedCost}

\* operation and cost of the records appended beside the guard: a completion
UsageChoices ==
    {<<"CHAT_COMPLETION", calculateChatCompletionCost("gpt-3.5-turbo", 500, 200)>>}

GuardCallers == {"t1"}

\* the locals of POST; calls and logs count what the turn has issued (history)
IdleTurn ==
    [userId |-> "anon", message |-> FALSE, templateId |-> "none", faults |-> "none",
     status |-> 0, reply |-> "none", system |-> "none",
     similarMessages |-> <<>>, history |-> <<>>, sent |-> <<>>,
     retrieval |-> "none", completion |-> "none", usage |-> FALSE,
     calls |-> [embedding |-> 0, query |-> 0, upsert |-> 0, completion |-> 0],
     logs |-> [EMBEDDING |-> 0, QUERY |-> 0, UPSERT |-> 0, CHAT_COMPLETION |-> 0]]

\* no library function has been called directly
NoCall == [fn |-> "none"]

\* what a caller has seen so far: nothing
NotObserved ==
    [seen |-> FALSE, calledAt |-> 0, returnedAt |-> 0, clean |-> FALSE,
     lastResetDaily |-> 0, lastResetMonthly |-> 0]

InitStore ==
    /\ clock = 0
    /\ ledger = EmptyBag
    /\ quota \in {{}} \cup
         {{Row(u, l[1], l[2], 0, 0, 0, 0)} : u \in Users, l \in LimitChoices}

InitGuard ==
    /\ InitStore
    /\ pc = [p \in Procs |-> "idle"]
    /\ frame = [p \in Procs |-> IdleFrame]
    /\ result = [p \in Procs |-> NoResult]
    /\ turn = [t \in Turns |-> IdleTurn]
    /\ pineconeConfigured = FALSE
    /\ observed = [p \in Procs |-> NotObserved]
    /\ call = NoCall

\* a caller makes a first call and then a second
NextReturn(at) == IF at = "idle" THEN "returned" ELSE "finished"

CallCheckUserLimits(p) ==
    /\ pc[p] \in {"idle", "returned"}
    /\ \E u \in Users, est \in EstimateChoices :
         frame' = [frame EXCEPT ![p] =
             NewFrame("check", NextReturn(pc[p]), u, est, TRUE)]
    /\ pc' = [pc EXCEPT ![p] = "find1"]
    /\ UNCHANGED <<clock, ledger, quota, result, turn, pineconeConfigured, observed, call>>

CallUpdateUserCostLimits(p) ==
    /\ pc[p] \in {"idle", "returned"}
    /\ \E u \in Users :
         frame' = [frame EXCEPT ![p] =
             NewFrame("update", NextReturn(pc[p]), u, 0, TRUE)]
    /\ pc' = [pc EXCEPT ![p] = "find1"]
    /\ UNCHANGED <<clock, ledger, quota, result, turn, pineconeConfigured, observed, call>>

\* a log* function of lib/costTracking appends one record
LogUsage ==
    /\ BagCardinality(ledger) < MaxLedger
    /\ \E u \in Users, c \in UsageChoices :
         ledger' = AppendRecord(ledger, UsageRecord(u, c[1], c[2], clock))
    /\ UNCHANGED <<clock, quota, pc, frame, result, turn, pineconeConfigured, observed, call>>

NextGuard ==
    \/ \E p \in GuardCallers : CallCheckUserLimits(p)
    \/ \E p \in GuardCallers : CallUpdateUserCostLimits(p)
    \/ \E p \in GuardCallers : LimitCheckerStep(p)
    \/ LogUsage
    \/ Tick

SpecGuard == InitGuard /\ [][NextGuard]_vars

-----------------------------------------------------------------------------
(* One caller awaiting checkUserLimits and then calling the guard again:    *)
(* sequential calls of one user, with what the caller saw in between        *)

\* the caller awaits its first checkUserLimits
SeqCallFirst(p) ==
    /\ pc[p] = "idle"
    /\ \E u \in Users :
         frame' = [frame EXCEPT ![p] =
             NewFrame("check", "returned", u, estimatedCost, TRUE)]
    /\ pc' = [pc EXCEPT ![p] = "find1"]
    /\ observed' = [observed EXCEPT ![p].calledAt = clock]
    /\ UNCHANGED <<clock, ledger, quota, result, turn, pineconeConfigured, call>>

\* the await resumes: the caller sees the row the call has left
SeqObserve(p) ==
    /\ pc[p] = "returned"
    /\ LET rows == findUnique(quota, frame[p].userId)
           row == IF rows = {} THEN NullRow ELSE CHOOSE r \in rows : TRUE
       IN  observed' = [observed EXCEPT ![p] =
               [seen |-> rows # {}, calledAt |-> @.calledAt, returnedAt |-> clock,
                clean |-> frame[p].failed = {},
                lastResetDaily |-> row.lastResetDaily,
                lastResetMonthly |-> row.lastResetMonthly]]
    /\ pc' = [pc EXCEPT ![p] = "observed"]
    /\ UNCHANGED <<clock, ledger, quota, frame, result, turn, pineconeConfigured, call>>

\* a further call of checkUserLimits or updateUserCostLimits
SeqCallAgain(p) ==
    /\ pc[p] = "observed"
    /\ \E fn \in {"check", "update"} :
         frame' = [frame EXCEPT ![p] =
             NewFrame(fn, "finished", frame[p].userId,
                      IF fn = "check" THEN estimatedCost ELSE 0, TRUE)]
    /\ pc' = [pc EXCEPT ![p] = "find1"]
    /\ UNCHANGED <<clock, ledger, quota, result, turn, pineconeConfigured, observed, call>>

\* time passes, but not between a return and the resumption of its await
TickSeq ==
    /\ \A p \in GuardCallers : pc[p] # "returned"
    /\ Tick

NextSeq ==
    \/ \E p \in GuardCallers : SeqCallFirst(p)
    \/ \E p \in GuardCallers : SeqObserve(p)
    \/ \E p \in GuardCallers : SeqCallAgain(p)
    \/ \E p \in GuardCallers : LimitCheckerStep(p)
    \/ TickSeq

SpecSeq == InitGuard /\ [][NextSeq]_vars

-----------------------------------------------------------------------------
(* lib/costTracking: the log* functions; their own store errors are caught *)

logChatCompletion(l, model, inputTokens, outputTokens, userId, t, ok) ==
    IF ok
    THEN AppendRecord(l, UsageRecord(userId, "CHAT_COMPLETION",
             calculateChatCompletionCost(model, inputTokens, outputTokens), t))
    ELSE l

logEmbedding(l, model, tokens, userId, t, ok) ==
    IF ok
    THEN AppendRecord(l, UsageRecord(userId, "EMBEDDING",
                                     calculateEmbeddingCost(model, tokens), t))
    ELSE l

logPineconeQuery(l, userId, t, ok) ==
    IF ok
    THEN AppendRecord(l, UsageRecord(userId, "QUERY", calculatePineconeCost("query"), t))
    ELSE l

logPineconeUpsert(l, userId, t, ok) ==
    IF ok
    THEN AppendRecord(l, UsageRecord(userId, "UPSERT", calculatePineconeCost("upsert"), t))
    ELSE l

-----------------------------------------------------------------------------
(* app/api/chat: POST, await by await *)

TemplateIds == {"none", "known", "broken", "unknown"}

\* PREDEFINED_TEMPLATES.find: "broken" is a template whose required variables
\* the request does not supply
getTemplateById(id) == IF id \in {"known", "broken"} THEN id ELSE "undefined"

\* templateEngine.render throws on a missing required variable
Renders(template) == template = "known"

\* json: whether request.json() parses the body
Requests ==
    {r \in [json : BOOLEAN, userId : Users \cup {"anon"}, message : BOOLEAN,
            templateId : TemplateIds] :
       ~r.json => (~r.message /\ r.templateId = "none")}

\* what can go wrong during a turn: nothing, the calls to the model provider
\* and the vector index, or the operations on the store
FaultChoices == {"none", "provider", "store"}

\* conversationHistory of the request body
HistoryChoices ==
    {<<>>,
     <<[role |-> "user", content |-> <<"h1">>],
       [role |-> "assistant", content |-> <<"h2">>]>>}

\* matches the vector index can return: one above and one below minScore
MatchChoices ==
    {<<>>,
     <<[score |-> 90, content |-> "m1", role |-> "user"],
       [score |-> 50, content |-> "m2", role |-> "assistant"]>>}

\* minScore: 0.7, in hundredths
minScore == 70

\* usage.total_tokens of an embeddings response
EmbeddingTokenChoices == {100}

\* usage.prompt_tokens and usage.completion_tokens of a completion
CompletionTokenChoices == {<<600, 300>>}

\* querySimilarMessages on a configured index: the matches at or above minScore
AboveMinScore(m) == m.score >= minScore

FilterMatches(matches) == SelectSeq(matches, AboveMinScore)

\* the configuration and the outcome of the query left unexamined
querySimilarMessages_Unguarded(configured, ok, raw) ==
    [raised |-> FALSE, matches |-> FilterMatches(raw)]

\* querySimilarMessages: [] when the index is not configured, the filtered
\* matches of a query that succeeds, and the error of a failed query thrown
\* again from its catch block
querySimilarMessages(configured, ok, raw) ==
    IF ~configured THEN [raised |-> FALSE, matches |-> <<>>]
    ELSE IF ~ok THEN [raised |-> TRUE, matches |-> <<>>]
    ELSE [raised |-> FALSE, matches |-> FilterMatches(raw)]

SystemMessage(kind) ==
    [role |-> "system",
     content |-> IF kind = "default" THEN <<"You are a helpful assistant.">>
                 ELSE <<"rendered template">>]

\* the RAG context message: a header and one numbered line per match
RagContextMessage(similar) ==
    [role |-> "system",
     content |-> <<"Relevant context from past conversations that might be helpful:">>
                   \o [i \in 1..Len(similar) |-> similar[i].content]]

UserMessage == [role |-> "user", content |-> <<"message">>]

\* the history pushed ahead of the retrieved context
BuildMessages_HistoryFirst(system, similar, history) ==
    <<SystemMessage(system)>>
      \o history
      \o (IF Len(similar) > 0 THEN <<RagContextMessage(similar)>> ELSE <<>>)
      \o <<UserMessage>>

\* the pushes onto messages, in the order POST makes them
BuildMessages(system, similar, history) ==
    <<SystemMessage(system)>>
      \o (IF Len(similar) > 0 THEN <<RagContextMessage(similar)>> ELSE <<>>)
      \o history
      \o <<UserMessage>>

\* the guard's verdict never stopping a turn
Rejected_Never(t) == FALSE

\* if (userId) { ... if (!limitCheck.allowed) return 429 }
Rejected(t) == turn[t].userId # "anon" /\ ~result[t].allowed

\* an empty reply taken for a reply
ReplyMissing_OnlyThrow(outcome) == outcome = "fail"

\* the completion call threw, or !reply
ReplyMissing(outcome) == outcome \in {"fail", "empty"}

\* outcomes of the calls to the model provider and the vector index
ProviderOutcomes(t) == IF turn[t].faults = "provider" THEN BOOLEAN ELSE {TRUE}

\* outcomes of the ledger writes a turn awaits
StoreOutcomes(t) == IF turn[t].faults = "store" THEN BOOLEAN ELSE {TRUE}

CompletionOutcomes(t) ==
    IF turn[t].faults = "provider" THEN {"fail", "empty", "ok", "okNoUsage"} ELSE {"ok"}

Authenticated(t) == turn[t].userId # "anon"

\* the turn returns a response
Respond(t, tn, status) ==
    /\ turn' = [turn EXCEPT ![t] = [tn EXCEPT !.status = status]]
    /\ pc' = [pc EXCEPT ![t] = "done"]

Goto(t, tn, next) ==
    /\ turn' = [turn EXCEPT ![t] = tn]
    /\ pc' = [pc EXCEPT ![t] = next]

\* session, body, the message check, the estimate and the call of the guard
StartTurn(t, req, faults) ==
    /\ pc[t] = "idle"
    /\ UNCHANGED <<clock, ledger, quota, result, pineconeConfigured, observed, call>>
    /\ LET tn == [IdleTurn EXCEPT !.userId = req.userId, !.message = req.message,
                                  !.templateId = req.templateId, !.faults = faults]
       IN  IF ~req.json
             THEN /\ Respond(t, tn, 500)
                  /\ UNCHANGED frame
             ELSE IF ~req.message
             THEN /\ Respond(t, tn, 400)
                  /\ UNCHANGED frame
             ELSE IF req.userId # "anon"
             THEN /\ Goto(t, tn, "find1")
                  /\ frame' = [frame EXCEPT ![t] =
                         NewFrame("check", "afterCheck", req.userId, estimatedCost,
                                  faults = "store")]
             ELSE /\ Goto(t, tn, "afterCheck")
                  /\ UNCHANGED frame

\* the guard's verdict, then the system message from the template
AfterCheck(t) ==
    /\ pc[t] = "afterCheck"
    /\ frame' = [frame EXCEPT ![t] = IdleFrame]
    /\ UNCHANGED <<clock, ledger, quota, result, pineconeConfigured, observed, call>>
    /\ LET tn == turn[t]
           template == getTemplateById(tn.templateId)
       IN  IF Rejected(t) THEN Respond(t, tn, 429)
           ELSE IF tn.templateId = "none"
           THEN Goto(t, [tn EXCEPT !.system = "default"], "embed")
           ELSE IF template = "undefined" THEN Respond(t, tn, 404)
           ELSE IF ~Renders(template) THEN Respond(t, tn, 400)
           ELSE Goto(t, [tn EXCEPT !.system = "template"], "embed")

\* the embedding of the message and its usage record
EmbedQuery(t) ==
    /\ pc[t] = "embed"
    /\ UNCHANGED <<clock, quota, frame, result, pineconeConfigured, observed, call>>
    /\ \E ok \in ProviderOutcomes(t), logged \in StoreOutcomes(t),
          tokens \in EmbeddingTokenChoices :
         LET tn == [turn[t] EXCEPT !.calls.embedding = @ + 1]
         IN  IF ~ok
             THEN /\ Goto(t, tn, "complete")
                  /\ UNCHANGED ledger
             ELSE IF Authenticated(t)
             THEN /\ ledger' = logEmbedding(ledger, "text-embedding-3-small", tokens,
                                            tn.userId, clock, logged)
                  /\ Goto(t, [tn EXCEPT !.logs.EMBEDDING =
                                   IF logged THEN @ + 1 ELSE @], "query")
             ELSE /\ Goto(t, tn, "query")
                  /\ UNCHANGED ledger

\* querySimilarMessages and the usage record of the query
QuerySimilar(t) ==
    /\ pc[t] = "query"
    /\ UNCHANGED <<clock, quota, frame, result, pineconeConfigured, observed, call>>
    /\ \E ok \in ProviderOutcomes(t), logged \in StoreOutcomes(t), raw \in MatchChoices :
         LET sent == pineconeConfigured
             similar == querySimilarMessages(pineconeConfigured, ok, raw)
             tn == [turn[t] EXCEPT
                      !.calls.query = IF sent THEN @ + 1 ELSE @,
                      !.retrieval = IF similar.raised THEN "raised" ELSE "returned",
                      !.similarMessages = similar.matches]
         IN  IF similar.raised
             THEN /\ Goto(t, tn, "complete")
                  /\ UNCHANGED ledger
             ELSE IF Authenticated(t)
             THEN /\ ledger' = logPineconeQuery(ledger, tn.userId, clock, logged)
                  /\ Goto(t, [tn EXCEPT !.logs.QUERY =
                                   IF logged THEN @ + 1 ELSE @], "complete")
             ELSE /\ Goto(t, tn, "complete")
                  /\ UNCHANGED ledger

\* a failed write of the completion record thrown on to the handler's catch
Complete_LogPropagates(t) ==
    /\ pc[t] = "complete"
    /\ UNCHANGED <<clock, quota, frame, result, pineconeConfigured, observed, call>>
    /\ \E history \in HistoryChoices, outcome \in CompletionOutcomes(t),
          logged \in StoreOutcomes(t), tokens \in CompletionTokenChoices :
         LET messages == BuildMessages(turn[t].system, turn[t].similarMessages, history)
             tn == [turn[t] EXCEPT !.calls.completion = @ + 1,
                                   !.history = history, !.sent = messages,
                                   !.completion = outcome,
                                   !.usage = (outcome = "ok")]
         IN  IF ReplyMissing(outcome) \/ (tn.usage /\ Authenticated(t) /\ ~logged)
             THEN /\ Respond(t, tn, 500)
                  /\ UNCHANGED ledger
             ELSE IF tn.usage /\ Authenticated(t)
             THEN /\ ledger' = logChatCompletion(ledger, "gpt-3.5-turbo", tokens[1],
                                                 tokens[2], tn.userId, clock, logged)
                  /\ Goto(t, [tn EXCEPT !.logs.CHAT_COMPLETION = @ + 1], "storeEmbed")
             ELSE /\ Goto(t, tn, "storeEmbed")
                  /\ UNCHANGED ledger

\* the messages, the completion call and its usage record
Complete(t) ==
    /\ pc[t] = "complete"
    /\ UNCHANGED <<clock, quota, frame, result, pineconeConfigured, observed, call>>
    /\ \E history \in HistoryChoices, outcome \in CompletionOutcomes(t),
          logged \in StoreOutcomes(t), tokens \in CompletionTokenChoices :
         LET messages == BuildMessages(turn[t].system, turn[t].similarMessages, history)
             tn == [turn[t] EXCEPT !.calls.completion = @ + 1,
                                   !.history = history, !.sent = messages,
                                   !.completion = outcome,
                                   !.usage = (outcome = "ok")]
         IN  IF ReplyMissing(outcome)
             THEN /\ Respond(t, tn, 500)
                  /\ UNCHANGED ledger
             ELSE IF tn.usage /\ Authenticated(t)
             THEN /\ ledger' = logChatCompletion(ledger, "gpt-3.5-turbo", tokens[1],
                                                 tokens[2], tn.userId, clock, logged)
                  /\ Goto(t, [tn EXCEPT !.logs.CHAT_COMPLETION =
                                   IF logged THEN @ + 1 ELSE @], "storeEmbed")
             ELSE /\ Goto(t, tn, "storeEmbed")
                  /\ UNCHANGED ledger

\* the two storage embeddings and the usage record of the first
StoreEmbeddings(t) ==
    /\ pc[t] = "storeEmbed"
    /\ UNCHANGED <<clock, quota, frame, result, pineconeConfigured, observed, call>>
    /\ \E ok \in ProviderOutcomes(t), logged \in StoreOutcomes(t),
          tokens \in EmbeddingTokenChoices :
         LET tn == [turn[t] EXCEPT !.calls.embedding = @ + 2,
                                   !.similarMessages = <<>>,
                                   !.history = <<>>, !.sent = <<>>]
         IN  IF ~ok
             THEN /\ Goto(t, tn, "finish")
                  /\ UNCHANGED ledger
             ELSE IF Authenticated(t)
             THEN /\ ledger' = logEmbedding(ledger, "text-embedding-3-small", tokens,
                                            tn.userId, clock, logged)
                  /\ Goto(t, [tn EXCEPT !.logs.EMBEDDING =
                                   IF logged THEN @ + 1 ELSE @], "logAssistantEmbedding")
             ELSE /\ Goto(t, tn, "upsertUser")
                  /\ UNCHANGED ledger

\* the usage record of the second storage embedding
LogAssistantEmbedding(t) ==
    /\ pc[t] = "logAssistantEmbedding"
    /\ UNCHANGED <<clock, quota, frame, result, pineconeConfigured, observed, call>>
    /\ \E logged \in StoreOutcomes(t), tokens \in EmbeddingTokenChoices :
         /\ ledger' = logEmbedding(ledger, "text-embedding-3-small", tokens,
                                   turn[t].userId, clock, logged)
         /\ Goto(t, [turn[t] EXCEPT !.logs.EMBEDDING =
                          IF logged THEN @ + 1 ELSE @], "upsertUser")

\* a failed upsert thrown on to the handler's catch
StoreMessage_Propagates(t) ==
    /\ pc[t] \in {"upsertUser", "upsertAssistant"}
    /\ UNCHANGED <<clock, quota, frame, result, pineconeConfigured, observed, call>>
    /\ \E ok \in ProviderOutcomes(t), logged \in StoreOutcomes(t) :
         LET sent == pineconeConfigured
             next == IF pc[t] = "upsertUser" THEN "upsertAssistant" ELSE "finish"
             tn == [turn[t] EXCEPT !.calls.upsert = IF sent THEN @ + 1 ELSE @]
         IN  IF sent /\ ~ok
             THEN /\ Respond(t, tn, 500)
                  /\ UNCHANGED ledger
             ELSE IF Authenticated(t)
             THEN /\ ledger' = logPineconeUpsert(ledger, tn.userId, clock, logged)
                  /\ Goto(t, [tn EXCEPT !.logs.UPSERT =
                                   IF logged THEN @ + 1 ELSE @], next)
             ELSE /\ Goto(t, tn, next)
                  /\ UNCHANGED ledger

\* storeMessageEmbedding of one message and the usage record of the upsert
StoreMessage(t) ==
    /\ pc[t] \in {"upsertUser", "upsertAssistant"}
    /\ UNCHANGED <<clock, quota, frame, result, pineconeConfigured, observed, call>>
    /\ \E ok \in ProviderOutcomes(t), logged \in StoreOutcomes(t) :
         LET sent == pineconeConfigured
             next == IF pc[t] = "upsertUser" THEN "upsertAssistant" ELSE "finish"
             tn == [turn[t] EXCEPT !.calls.upsert = IF sent THEN @ + 1 ELSE @]
         IN  IF sent /\ ~ok
             THEN /\ Goto(t, tn, "finish")
                  /\ UNCHANGED ledger
             ELSE IF Authenticated(t)
             THEN /\ ledger' = logPineconeUpsert(ledger, tn.userId, clock, logged)
                  /\ Goto(t, [tn EXCEPT !.logs.UPSERT =
                                   IF logged THEN @ + 1 ELSE @], next)
             ELSE /\ Goto(t, tn, next)
                  /\ UNCHANGED ledger

\* the reconciliation awaited: the reply waits for it and a failed one
\* turns the response into an error
Finish_Awaiting(t) ==
    /\ pc[t] = "finish"
    /\ UNCHANGED <<clock, ledger, quota, result, pineconeConfigured, observed, call>>
    /\ IF Authenticated(t) /\ turn[t].usage /\ pc[ReconOf(t)] = "idle"
       THEN /\ pc' = [pc EXCEPT ![ReconOf(t)] = "find1"]
            /\ frame' = [frame EXCEPT ![ReconOf(t)] =
                   NewFrame("update", "done", turn[t].userId, 0, turn[t].faults = "store")]
            /\ UNCHANGED turn
       ELSE /\ pc[ReconOf(t)] \in {"idle", "done"}
            /\ turn' = [turn EXCEPT ![t] =
                   IF frame[ReconOf(t)].failed = {}
                   THEN [@ EXCEPT !.status = 200, !.reply = "text"]
                   ELSE [@ EXCEPT !.status = 500]]
            /\ pc' = [pc EXCEPT ![t] = "done"]
            /\ UNCHANGED frame

\* updateUserCostLimits is started and not awaited; the reply is returned
Finish(t) ==
    /\ pc[t] = "finish"
    /\ UNCHANGED <<clock, ledger, quota, result, pineconeConfigured, observed, call>>
    /\ turn' = [turn EXCEPT ![t] = [@ EXCEPT !.status = 200, !.reply = "text"]]
    /\ IF Authenticated(t) /\ turn[t].usage
       THEN /\ pc' = [pc EXCEPT ![t] = "done", ![ReconOf(t)] = "find1"]
            /\ frame' = [frame EXCEPT ![ReconOf(t)] =
                   NewFrame("update", "done", turn[t].userId, 0, turn[t].faults = "store")]
       ELSE /\ pc' = [pc EXCEPT ![t] = "done"]
            /\ UNCHANGED frame

TurnStep(t) ==
    \/ AfterCheck(t)
    \/ EmbedQuery(t)
    \/ QuerySimilar(t)
    \/ Complete(t)
    \/ StoreEmbeddings(t)
    \/ LogAssistantEmbedding(t)
    \/ StoreMessage(t)
    \/ Finish(t)

\* the idle processes of a deployment
InitProcs ==
    /\ pc = [p \in Procs |-> "idle"]
    /\ frame = [p \in Procs |-> IdleFrame]
    /\ result = [p \in Procs |-> NoResult]
    /\ turn = [t \in Turns |-> IdleTurn]
    /\ pineconeConfigured \in BOOLEAN
    /\ observed = [p \in Procs |-> NotObserved]
    /\ call = NoCall

\* what earlier turns left in the ledger: nothing, or one completion of today
PriorLedgerChoices ==
    {EmptyBag} \cup
    {SetToBag({UsageRecord(u, c[1], c[2], MaxClock - 1)}) :
        u \in Users, c \in UsageChoices}

\* a deployment late on the last day of a month, its rows last reset on the first
InitChat ==
    /\ clock = MaxClock - 1
    /\ ledger \in PriorLedgerChoices
    /\ quota \in {{}} \cup
         {{Row(u, l[1], l[2], 0, 0, 0, 0)} : u \in Users, l \in LimitChoices}
    /\ InitProcs

\* one chat turn at a time, with any request and with provider failures
SoloTurns == {"t1"}

StartSolo(t) ==
    \E req \in Requests, faults \in {"none", "provider"} : StartTurn(t, req, faults)

Next ==
    \/ \E t \in SoloTurns : StartSolo(t)
    \/ \E t \in Turns : TurnStep(t)
    \/ \E p \in Procs : LimitCheckerStep(p)
    \/ Tick

Spec == InitChat /\ [][Next]_vars

-----------------------------------------------------------------------------
(* Two chat turns of one user side by side, nothing failing *)

\* a daily limit one unit short of two estimates
RaceLimitChoices == {<<2 * estimatedCost - 1, DefaultMonthlyLimit>>}

RaceRequests ==
    {r \in Requests : r.json /\ r.message /\ r.userId # "anon" /\ r.templateId = "none"}

\* the first moments of a new month, the rows last reset a month earlier
InitRace ==
    /\ clock = MaxClock
    /\ ledger = EmptyBag
    /\ quota \in {{}} \cup
         {{Row(u, l[1], l[2], 0, 0, 0, 0)} : u \in Users, l \in RaceLimitChoices}
    /\ InitProcs

StartRace(t) == \E req \in RaceRequests : StartTurn(t, req, "none")

NextRace ==
    \/ \E t \in Turns : StartRace(t)
    \/ \E t \in Turns : TurnStep(t)
    \/ \E p \in Procs : LimitCheckerStep(p)

SpecRace == InitRace /\ [][NextRace]_vars

-----------------------------------------------------------------------------
(* One chat turn of an authenticated user while the store is failing *)

StartStore(t) == \E req \in RaceRequests : StartTurn(t, req, "store")

NextStore ==
    \/ \E t \in SoloTurns : StartStore(t)
    \/ \E t \in Turns : TurnStep(t)
    \/ \E p \in Procs : LimitCheckerStep(p)

SpecStore == InitRace /\ [][NextStore]_vars

-----------------------------------------------------------------------------
(* The library functions called directly, on arguments of any value        *)

\* an optional argument or field left out by the caller
Undefined == -1

\* how many vectors the index holds at most
MaxMatches == 3

\* scores of stored vectors against a query, in hundredths
ScoreChoices == {50, 75, 90}

\* index.query answers best match first
Descending(sq) == \A i \in 1..(Len(sq) - 1) : sq[i].score >= sq[i + 1].score

StoredChoices ==
    {sq \in UNION {[1..n -> [score : ScoreChoices, content : {"m"}, role : {"user"}]] :
                       n \in 0..MaxMatches} : Descending(sq)}

\* options.topK and options.minScore as a caller can pass them
TopKChoices == {Undefined} \cup (0..MaxMatches)
MinScoreChoices == {Undefined, 0, 70, 100}

\* const topK = options.topK || 5: an omitted topK and a topK of 0 are both falsy
effectiveTopK(topK) == IF topK = Undefined \/ topK = 0 THEN 5 ELSE topK

\* index.query({vector, topK}): the topK best of the stored vectors
indexQuery(stored, topK) ==
    SubSeq(stored, 1, IF topK < Len(stored) THEN topK ELSE Len(stored))

\* matches.filter((match) => (match.score || 0) >= options.minScore), when given
filterByMinScore(matches, min) ==
    IF min = Undefined THEN matches
    ELSE LET Keep(m) == m.score >= min IN SelectSeq(matches, Keep)

\* querySimilarMessages with the caller's options
querySimilarMessagesWith(configured, ok, stored, topK, min) ==
    IF ~configured THEN [raised |-> FALSE, raw |-> <<>>, matches |-> <<>>]
    ELSE IF ~ok THEN [raised |-> TRUE, raw |-> <<>>, matches |-> <<>>]
    ELSE LET raw == indexQuery(stored, effectiveTopK(topK))
         IN  [raised |-> FALSE, raw |-> raw, matches |-> filterByMinScore(raw, min)]

CallQuerySimilarMessages ==
    /\ call = NoCall
    /\ \E configured \in BOOLEAN, ok \in BOOLEAN, stored \in StoredChoices,
          topK \in TopKChoices, min \in MinScoreChoices :
         call' = [fn |-> "querySimilarMessages", configured |-> configured,
                  stored |-> stored, topK |-> topK, minScore |-> min,
                  out |-> querySimilarMessagesWith(configured, ok, stored, topK, min)]
    /\ UNCHANGED <<clock, ledger, quota, pc, frame, result, turn, pineconeConfigured,
                   observed>>

\* model names a caller can pass: those of the table, a name the table lacks,
\* and names of inherited members
ChatModelChoices == ChatModels \cup {"gpt-5"} \cup ObjectPrototypeKeys
EmbeddingModelChoices == EmbeddingModels \cup {"embed-v9"} \cup ObjectPrototypeKeys

\* token counts a caller can pass
MaxTokens == 4
TokenChoices == 0..MaxTokens

CallCalculateChatCompletionCost ==
    /\ call = NoCall
    /\ \E model \in ChatModelChoices, i \in TokenChoices, o \in TokenChoices :
         call' = [fn |-> "calculateChatCompletionCost", model |-> model,
                  inputTokens |-> i, outputTokens |-> o,
                  out |-> calculateChatCompletionCost(model, i, o)]
    /\ UNCHANGED <<clock, ledger, quota, pc, frame, result, turn, pineconeConfigured,
                   observed>>

CallCalculateEmbeddingCost ==
    /\ call = NoCall
    /\ \E model \in EmbeddingModelChoices, n \in TokenChoices :
         call' = [fn |-> "calculateEmbeddingCost", model |-> model, tokens |-> n,
                  out |-> calculateEmbeddingCost(model, n)]
    /\ UNCHANGED <<clock, ledger, quota, pc, frame, result, turn, pineconeConfigured,
                   observed>>

CallCalculatePineconeCost ==
    /\ call = NoCall
    /\ \E operation \in {"query", "upsert"} :
         call' = [fn |-> "calculatePineconeCost", operation |-> operation,
                  out |-> calculatePineconeCost(operation)]
    /\ UNCHANGED <<clock, ledger, quota, pc, frame, result, turn, pineconeConfigured,
                   observed>>

NextLib ==
    \/ CallQuerySimilarMessages
    \/ CallCalculateChatCompletionCost
    \/ CallCalculateEmbeddingCost
    \/ CallCalculatePineconeCost

SpecLib == InitGuard /\ [][NextLib]_vars

-----------------------------------------------------------------------------
(* lib/limitChecker: setUserLimits and getUserLimitStatus, each run from   *)
(* its call to its return with nothing in between                          *)

\* limits an administrator can pass to setUserLimits, or leave out
LimitValueChoices == {Undefined, 0, estimatedCost, DefaultDailyLimit}

\* getOrCreateUserLimits run to its end: the quota table it leaves
getOrCreateUserLimits(q, userId, t) ==
    IF findUnique(q, userId) # {} THEN q ELSE q \cup {DefaultRow(userId, t)}

\* setUserLimits: the row is fetched or created, then the limits given are set
setUserLimits(q, userId, dailyLimit, monthlyLimit, t) ==
    {IF r.userId = userId
     THEN [r EXCEPT !.dailyLimit = IF dailyLimit # Undefined THEN dailyLimit ELSE @,
                    !.monthlyLimit = IF monthlyLimit # Undefined THEN monthlyLimit ELSE @]
     ELSE r : r \in getOrCreateUserLimits(q, userId, t)}

\* the two resets that getUserLimitStatus starts on the row it fetched
ResetsOfStatus(q, l, userLimit, t) ==
    LET q1 == IF isNewDay(t, userLimit.lastResetDaily)
              THEN UpdateDaily(q, userLimit.userId,
                               getUserDailyCost(l, userLimit.userId, t, TRUE), t)
              ELSE q
    IN  IF isNewMonth(t, userLimit.lastResetMonthly)
        THEN UpdateMonthly(q1, userLimit.userId,
                           getUserMonthlyCost(l, userLimit.userId, t, TRUE), t)
        ELSE q1

\* Math.max(0, x)
Max0(x) == IF x > 0 THEN x ELSE 0

\* userLimit.dailyLimit || 0.045: a limit of 0 is falsy
StatusLimit(limit, default) == IF limit = 0 THEN default ELSE limit

\* the object getUserLimitStatus returns; percentages in whole percents
getUserLimitStatus(userLimit, actualDailyCost, actualMonthlyCost) ==
    LET dailyLimit == StatusLimit(userLimit.dailyLimit, DefaultDailyLimit)
        monthlyLimit == StatusLimit(userLimit.monthlyLimit, DefaultMonthlyLimit)
    IN  [dailyLimit |-> dailyLimit,
         monthlyLimit |-> monthlyLimit,
         currentDaily |-> actualDailyCost,
         currentMonthly |-> actualMonthlyCost,
         dailyRemaining |-> Max0(dailyLimit - actualDailyCost),
         monthlyRemaining |-> Max0(monthlyLimit - actualMonthlyCost),
         dailyPercentage |-> IF dailyLimit > 0
                             THEN (actualDailyCost * 100) \div dailyLimit ELSE 0,
         monthlyPercentage |-> IF monthlyLimit > 0
                               THEN (actualMonthlyCost * 100) \div monthlyLimit ELSE 0]

CallSetUserLimits ==
    /\ call = NoCall
    /\ \E u \in Users, dailyLimit \in LimitValueChoices,
          monthlyLimit \in LimitValueChoices :
         quota' = setUserLimits(quota, u, dailyLimit, monthlyLimit, clock)
    /\ UNCHANGED <<clock, ledger, pc, frame, result, turn, pineconeConfigured,
                   observed, call>>

\* the call keeps the row it decided on and the sums it read
CallGetUserLimitStatus ==
    /\ call = NoCall
    /\ \E u \in Users :
         LET q == getOrCreateUserLimits(quota, u, clock)
             userLimit == CHOOSE r \in findUnique(q, u) : TRUE
             daily == getUserDailyCost(ledger, u, clock, TRUE)
             monthly == getUserMonthlyCost(ledger, u, clock, TRUE)
         IN  /\ quota' = ResetsOfStatus(q, ledger, userLimit, clock)
             /\ call' = [fn |-> "getUserLimitStatus", userLimit |-> userLimit,
                         daily |-> daily, monthly |-> monthly,
                         out |-> getUserLimitStatus(userLimit, daily, monthly)]
    /\ UNCHANGED <<clock, ledger, pc, frame, result, turn, pineconeConfigured,
                   observed>>

NextStatus ==
    \/ CallSetUserLimits
    \/ CallGetUserLimitStatus
    \/ LogUsage
    \/ Tick

SpecStatus == InitGuard /\ [][NextStatus]_vars

-----------------------------------------------------------------------------
(* Claims about the guard, checked under SpecGuard *)

\* the ledger's sums by calendar day and calendar month
DaySum(l, userId, t) ==
    SumOver(l, {r \in BagToSet(l) :
                  r.userId = userId /\ DayOf(r.timestamp) = DayOf(t)})

MonthSum(l, userId, t) ==
    SumOver(l, {r \in BagToSet(l) :
                  r.userId = userId /\ MonthOf(r.timestamp) = MonthOf(t)})

CheckReturned(p) == pc[p] \in {"returned", "finished"} /\ frame[p].fn = "check"

RowOps == {"find1", "create1", "find2", "create2", "unique"}

\* C1: with no store error, checkUserLimits returns allowed=false exactly when
\* the ledger's daily sum plus estimatedCost is above dailyLimit or the ledger's
\* monthly sum plus estimatedCost is above monthlyLimit (a projection equal to
\* the limit is allowed); the sums are the ledger's at the two reads and the
\* limits are those of the user's row.
C1_RejectIffOverLimit ==
    /\ [](\A p \in Procs :
            (CheckReturned(p) /\ frame[p].failed = {}) =>
               LET r == result[p]
                   est == frame[p].estimate
               IN  /\ r.figures
                   /\ r.allowed = FALSE <=>
                        \/ r.dailyUsage + est > r.dailyLimit
                        \/ r.monthlyUsage + est > r.monthlyLimit
                   /\ \E row \in findUnique(quota, frame[p].userId) :
                        /\ row.dailyLimit = r.dailyLimit
                        /\ row.monthlyLimit = r.monthlyLimit)
    /\ [][\A p \in Procs :
            /\ (pc[p] = "daily" /\ pc'[p] = "monthly" /\ frame'[p].failed = {}) =>
                  frame'[p].actualDaily = DaySum(ledger, frame[p].userId, clock)
            /\ (pc[p] = "monthly" /\ CheckReturned(p)' /\ frame'[p].failed = {}) =>
                  /\ result'[p].dailyUsage = frame[p].actualDaily
                  /\ result'[p].monthlyUsage = MonthSum(ledger, frame[p].userId, clock)
       ]_vars

\* C1 witness: a check allowed with the projection exactly at the daily limit
C1_Witness ==
    \E p \in Procs :
        /\ CheckReturned(p) /\ frame[p].failed = {}
        /\ frame[p].estimate > 0
        /\ result[p].allowed
        /\ result[p].dailyUsage + frame[p].estimate = result[p].dailyLimit

\* C3 as stated: whenever a store operation of checkUserLimits fails, the
\* result is allowed=true with the diagnostic reason.
C3_FailOpenOnAnyStoreError ==
    \A p \in Procs :
        (CheckReturned(p) /\ frame[p].failed # {}) =>
            /\ result[p].allowed
            /\ result[p].reason = "Error checking limits, request allowed"

\* C3 amended: checkUserLimits returns the fail-open result (allowed=true with
\* the diagnostic reason, no usage figures) exactly when fetching or creating
\* the quota row fails; a failed reset update or ledger aggregate leaves it
\* returning the decision taken on the figures it has.
C3_FailOpenOnRowError ==
    \A p \in Procs :
        CheckReturned(p) =>
            /\ (frame[p].failed \cap RowOps # {}) =>
                   /\ result[p].allowed
                   /\ result[p].reason = "Error checking limits, request allowed"
                   /\ ~result[p].figures
            /\ (frame[p].failed \cap RowOps = {}) =>
                   /\ result[p].figures
                   /\ result[p].reason # "Error checking limits, request allowed"

\* C3 witness: a check that returned after its row fetch or create threw
C3_Witness ==
    \E p \in Procs :
        /\ CheckReturned(p)
        /\ frame[p].failed \cap RowOps # {}
        /\ result[p] = FailOpen

\* values the cached counters can take, beside the ones stored
CacheChoices == {0, estimatedCost, DefaultMonthlyLimit + 1}

\* C5: at every decision checkUserLimits takes, the result is the same for
\* every value of the row's cached currentDaily and currentMonthly: it depends
\* on the ledger sums, the limits and estimatedCost only.
C5_CacheIrrelevant ==
    \A p \in Procs :
        (pc[p] = "monthly" /\ frame[p].fn = "check") =>
            \A cd \in CacheChoices, cm \in CacheChoices, ok \in BOOLEAN :
                LET f == frame[p]
                    monthly == getUserMonthlyCost(ledger, f.userId, clock, ok)
                    other == [f.userLimit EXCEPT !.currentDaily = cd,
                                                 !.currentMonthly = cm]
                IN  LimitDecision(other, f.actualDaily, monthly, f.estimate)
                      = LimitDecision(f.userLimit, f.actualDaily, monthly, f.estimate)

\* C5 witness: a check about to decide while the cached daily counter of its
\* row differs from the ledger sum it has read
C5_Witness ==
    \E p \in Procs :
        /\ pc[p] = "monthly" /\ frame[p].fn = "check"
        /\ frame[p].failed = {}
        /\ frame[p].userLimit.currentDaily # frame[p].actualDaily

\* the limits of every row stay, no row goes, and a new row is the default row
LimitsKept ==
    /\ \A r \in quota : \E r2 \in quota' :
          /\ r2.userId = r.userId
          /\ r2.dailyLimit = r.dailyLimit
          /\ r2.monthlyLimit = r.monthlyLimit
    /\ \A r2 \in quota' :
          \/ findUnique(quota, r2.userId) # {}
          \/ r2 = DefaultRow(r2.userId, clock)

\* C7: a step of checkUserLimits leaves the ledger and both limits as they
\* are; it changes currentDaily/lastResetDaily only in the daily reset, on a
\* calendar day other than that of the lastResetDaily it fetched, and
\* currentMonthly/lastResetMonthly only in the monthly reset, in a calendar
\* month other than that of the lastResetMonthly it fetched.
C7_CheckFrame ==
    [][\A p \in Procs :
         (frame[p].fn = "check" /\ pc'[p] # pc[p] /\ pc[p] \notin {"idle", "returned", "finished"}) =>
            /\ ledger' = ledger
            /\ LimitsKept
            /\ \A r \in quota, r2 \in quota' :
                 r2.userId = r.userId =>
                    /\ (r2.currentDaily # r.currentDaily
                        \/ r2.lastResetDaily # r.lastResetDaily) =>
                          /\ pc[p] = "resetDailyWrite"
                          /\ DayOf(frame[p].now) # DayOf(frame[p].userLimit.lastResetDaily)
                          /\ r2.lastResetDaily = frame[p].now
                    /\ (r2.currentMonthly # r.currentMonthly
                        \/ r2.lastResetMonthly # r.lastResetMonthly) =>
                          /\ pc[p] = "resetMonthlyWrite"
                          /\ MonthOf(frame[p].now)
                               # MonthOf(frame[p].userLimit.lastResetMonthly)
                          /\ r2.lastResetMonthly = frame[p].now
      ]_vars

\* C7 witness: the first check of a caller has just written a daily reset
C7_Witness ==
    \E p \in Procs :
        /\ frame[p].fn = "check" /\ frame[p].ret = "returned"
        /\ pc[p] = "resetMonthly"
        /\ \E r \in quota : r.lastResetDaily > 0 /\ r.currentDaily > 0

-----------------------------------------------------------------------------
(* Claims about chat turns, checked under Spec and SpecRace *)

NoCalls == [embedding |-> 0, query |-> 0, upsert |-> 0, completion |-> 0]

NoLogs == [EMBEDDING |-> 0, QUERY |-> 0, UPSERT |-> 0, CHAT_COMPLETION |-> 0]

\* the guard has returned to the turn
GuardConsulted(t) == frame[t].fn = "check" \/ result[t] # NoResult

\* C2: an authenticated turn whose guard check returned allowed=false goes
\* nowhere but to the 429 response: it has issued no embedding, query, upsert
\* or completion call, appended no record and dispatched no reconciliation
C2_RejectedTurnMakesNoPaidCall ==
    \A t \in Turns :
        (Authenticated(t) /\ ~result[t].allowed) =>
            /\ pc[t] \in {"afterCheck", "done"}
            /\ pc[t] = "done" => (turn[t].status = 429 /\ turn[t].reply = "none")
            /\ turn[t].calls = NoCalls
            /\ turn[t].logs = NoLogs
            /\ pc[ReconOf(t)] = "idle"

C2_Witness ==
    \E t \in Turns :
        /\ pc[t] = "done" /\ turn[t].status = 429
        /\ Authenticated(t) /\ ~result[t].allowed
        /\ result[t].reason = "Daily limit exceeded"

\* C4: nothing ties the guard checks of two turns together: two checks that
\* read the same sums against the same limits return the same verdict, whatever
\* the other turn has been allowed to do in the meantime
C4_NoReservation ==
    \A t \in Turns, o \in Turns :
        (/\ result[t].figures /\ result[o].figures
         /\ result[t].dailyUsage = result[o].dailyUsage
         /\ result[t].monthlyUsage = result[o].monthlyUsage
         /\ result[t].dailyLimit = result[o].dailyLimit
         /\ result[t].monthlyLimit = result[o].monthlyLimit)
        => result[t].allowed = result[o].allowed

\* both turns of one user read the same daily sum, each estimate fits and the
\* two together do not, both were allowed, both completions were issued, and
\* the day's ledger sum ends above dailyLimit
C4_Witness ==
    /\ turn["t1"].userId = turn["t2"].userId
    /\ \A t \in Turns :
         /\ pc[t] = "done" /\ turn[t].status = 200
         /\ turn[t].calls.completion = 1
         /\ result[t].figures /\ result[t].allowed
    /\ result["t1"].dailyUsage = result["t2"].dailyUsage
    /\ result["t1"].dailyLimit = result["t2"].dailyLimit
    /\ result["t1"].dailyUsage + estimatedCost <= result["t1"].dailyLimit
    /\ result["t1"].dailyUsage + 2 * estimatedCost > result["t1"].dailyLimit
    /\ DaySum(ledger, turn["t1"].userId, clock) > result["t1"].dailyLimit

\* C6: every step of turns, guard checks and reconciliations leaves each
\* record of the ledger in place: the ledger after the step contains the
\* ledger before it
C6_LedgerAppendOnly == [][ledger \sqsubseteq ledger']_vars

C6_Witness ==
    /\ \A t \in Turns : pc[t] = "done" /\ pc[ReconOf(t)] = "done"
    /\ BagCardinality(ledger) = 14

\* C8: a request with a message and an unknown templateId ends with 404, one
\* whose template does not render with 400, and the guard is not consulted
\* for either
C8_ValidateBeforeGuard ==
    \A t \in Turns :
        (turn[t].message /\ turn[t].templateId \in {"unknown", "broken"}) =>
            /\ ~GuardConsulted(t)
            /\ pc[t] = "done" =>
                 turn[t].status = IF turn[t].templateId = "unknown" THEN 404 ELSE 400

\* C9: the messages sent to the provider are the system message, the context
\* message exactly when a match was retrieved, the history in its order, and
\* the user message last
C9_MessageOrder ==
    \A t \in Turns :
        turn[t].sent # <<>> =>
            LET sent == turn[t].sent
                history == turn[t].history
                similar == turn[t].similarMessages
                k == IF similar # <<>> THEN 2 ELSE 1
            IN  /\ Len(sent) = k + Len(history) + 1
                /\ sent[1] = SystemMessage(turn[t].system)
                /\ similar # <<>> => sent[2] = RagContextMessage(similar)
                /\ \A i \in 1..Len(history) : sent[k + i] = history[i]
                /\ sent[Len(sent)] = UserMessage

C9_Witness ==
    \E t \in Turns :
        /\ turn[t].calls.completion = 1
        /\ Len(turn[t].sent) = 5
        /\ turn[t].similarMessages # <<>>
        /\ Len(turn[t].history) = 2
        /\ turn[t].system = "template"

\* C10: a turn issues at most one completion call; when the call fails or
\* the reply is empty the turn has ended with 500 and no reply, and has logged
\* no completion, issued no storage embedding or upsert and dispatched no
\* reconciliation
C10_CompletionFailureEndsTurn ==
    \A t \in Turns :
        /\ turn[t].calls.completion <= 1
        /\ turn[t].completion \in {"fail", "empty"} =>
             /\ pc[t] = "done"
             /\ turn[t].status = 500 /\ turn[t].reply = "none"
             /\ turn[t].calls.completion = 1
             /\ turn[t].logs.CHAT_COMPLETION = 0
             /\ turn[t].calls.embedding <= 1
             /\ turn[t].calls.upsert = 0 /\ turn[t].logs.UPSERT = 0
             /\ pc[ReconOf(t)] = "idle"

C10_Witness ==
    \E t \in Turns :
        /\ turn[t].completion = "empty"
        /\ turn[t].status = 500
        /\ turn[t].calls.embedding = 1

-----------------------------------------------------------------------------
(* Claims about usage logging and the response path *)

\* the cost of the completion as the provider reports it
ActualCompletionCosts ==
    {calculateChatCompletionCost("gpt-3.5-turbo", tk[1], tk[2]) :
        tk \in CompletionTokenChoices}

\* C11: a turn whose completion returned a non-empty reply has, when it
\* returns its response, appended one completion record priced from the
\* provider's token counts
C11_CompletionAlwaysLogged ==
    \A t \in Turns :
        (pc[t] = "done" /\ turn[t].completion \in {"ok", "okNoUsage"}) =>
            /\ turn[t].logs.CHAT_COMPLETION = 1
            /\ \E r \in BagToSet(ledger) :
                 /\ r.operation = "CHAT_COMPLETION"
                 /\ r.estimatedCost \in ActualCompletionCosts

\* C12: a turn whose completion call has not yet returned has appended no
\* record to the ledger
C12_NoRecordBeforeCompletion ==
    \A t \in Turns :
        turn[t].calls.completion = 0 => turn[t].logs = NoLogs

\* the positions of a turn inside the storage block
StoragePcs == {"storeEmbed", "logAssistantEmbedding", "upsertUser", "upsertAssistant"}

\* C13: the storage work does not hold the response back: while the storage
\* embeddings or upserts of a turn are still to be done, the turn can return
\* its response
C13_ResponseNotHeldByStorage ==
    \A t \in Turns : pc[t] \in StoragePcs => ENABLED Finish(t)

\* what the handler does instead: a response is returned only after the two
\* storage embeddings have been issued and, when nothing fails and the index
\* is configured, after both upserts
C13_StorageAwaited ==
    \A t \in Turns :
        (pc[t] = "done" /\ turn[t].status = 200) =>
            /\ turn[t].calls.embedding = 3
            /\ (turn[t].faults = "none" /\ pineconeConfigured) => turn[t].calls.upsert = 2

C13_Witness ==
    \E t \in Turns :
        /\ pc[t] = "done" /\ turn[t].status = 200
        /\ turn[t].calls.upsert = 2

\* C14: a reconciliation exists only for a turn that has had its completion
\* and has returned 200 with the reply, and no step taken while it runs, ends
\* or fails touches that response
C14_ReconciliationDetached ==
    /\ [](\A t \in Turns :
            pc[ReconOf(t)] # "idle" =>
                /\ pc[t] = "done"
                /\ turn[t].status = 200 /\ turn[t].reply = "text"
                /\ turn[t].calls.completion = 1 /\ turn[t].usage)
    /\ [][\A t \in Turns :
            pc[ReconOf(t)] # "idle" => (turn'[t] = turn[t] /\ pc'[t] = pc[t])]_vars

\* a reconciliation ended with a failed store operation behind a 200
C14_Witness ==
    \E t \in Turns :
        /\ pc[ReconOf(t)] = "done" /\ frame[ReconOf(t)].failed # {}
        /\ pc[t] = "done" /\ turn[t].status = 200 /\ turn[t].reply = "text"
        /\ turn[t].logs.CHAT_COMPLETION = 1

\* C15: querySimilarMessages never raises, and returns the empty sequence when
\* the index is not configured
C15_RetrieveNeverRaises ==
    \A t \in Turns :
        /\ turn[t].retrieval # "raised"
        /\ (turn[t].retrieval = "returned" /\ ~pineconeConfigured) =>
               turn[t].similarMessages = <<>>

\* the turn got no matches: the query embedding failed (no query followed),
\* the query raised, or the index is not configured
RetrievalDegraded(t) ==
    /\ turn[t].calls.embedding >= 1
    /\ pc[t] \notin {"embed", "query"}
    /\ turn[t].retrieval \in {"none", "raised"} \/ ~pineconeConfigured

\* C16: a turn whose retrieval degraded still issues its completion call, with
\* no context message, and fails only when that call fails or returns no
\* reply; with a reply it returns 200
C16_RetrievalNeverFailsTurn ==
    \A t \in Turns :
        RetrievalDegraded(t) =>
            /\ turn[t].similarMessages = <<>>
            /\ pc[t] # "complete" => turn[t].calls.completion = 1
            /\ \A i \in 2..Len(turn[t].sent) : turn[t].sent[i].role # "system"
            /\ pc[t] = "done" =>
                 IF turn[t].completion \in {"ok", "okNoUsage"}
                 THEN turn[t].status = 200 /\ turn[t].reply = "text"
                 ELSE turn[t].status = 500 /\ turn[t].completion \in {"fail", "empty"}

C16_Witness ==
    \E t \in Turns :
        /\ pineconeConfigured /\ turn[t].retrieval = "raised"
        /\ pc[t] = "done" /\ turn[t].status = 200 /\ turn[t].reply = "text"

\* the calls of a turn that ran to its end with nothing but ledger writes failing
AllCalls ==
    [embedding |-> 3, query |-> IF pineconeConfigured THEN 1 ELSE 0,
     upsert |-> IF pineconeConfigured THEN 2 ELSE 0, completion |-> 1]

\* C17: whichever ledger writes of a turn fail, the turn makes the same calls
\* and returns 200 with the reply, as it does when every write succeeds
C17_LedgerFailureNeverPropagates ==
    \A t \in Turns :
        (pc[t] = "done" /\ turn[t].faults = "store") =>
            /\ turn[t].status = 200 /\ turn[t].reply = "text"
            /\ turn[t].completion = "ok"
            /\ turn[t].calls = AllCalls

\* every ledger write of the turn failed
C17_Witness ==
    \E t \in Turns :
        /\ pc[t] = "done" /\ turn[t].faults = "store"
        /\ turn[t].logs = NoLogs /\ ledger = EmptyBag
        /\ turn[t].status = 200 /\ turn[t].reply = "text"

\* the completion record a turn has written is in the ledger
CompletionRecordKept(t) ==
    \E r \in BagToSet(ledger) :
        /\ r.userId = turn[t].userId
        /\ r.operation = "CHAT_COMPLETION"
        /\ r.estimatedCost \in ActualCompletionCosts

\* C18: after a completion with a reply, whatever fails in the storage block,
\* the turn returns 200 with the reply and the completion record it wrote is
\* still in the ledger
C18_StorageFailureKeepsResponse ==
    \A t \in Turns :
        turn[t].completion \in {"ok", "okNoUsage"} =>
            /\ pc[t] \in StoragePcs \cup {"finish", "done"}
            /\ pc[t] = "done" => (turn[t].status = 200 /\ turn[t].reply = "text")
            /\ turn[t].logs.CHAT_COMPLETION = 1 => CompletionRecordKept(t)

\* the first upsert failed, or the storage embeddings did
C18_Witness ==
    \E t \in Turns :
        /\ pineconeConfigured /\ Authenticated(t)
        /\ pc[t] = "done" /\ turn[t].calls.upsert < 2
        /\ turn[t].status = 200 /\ turn[t].reply = "text"
        /\ turn[t].logs.CHAT_COMPLETION = 1 /\ CompletionRecordKept(t)


\* the caller's first call returned on the day (month) it is now
SameDayAsFirstCall(p) ==
    observed[p].seen /\ DayOf(clock) = DayOf(observed[p].returnedAt)

SameMonthAsFirstCall(p) ==
    observed[p].seen /\ MonthOf(clock) = MonthOf(observed[p].returnedAt)

\* the first call threw nowhere and began on the day (month) it returned
FirstCallWithinDay(p) ==
    observed[p].clean /\ DayOf(observed[p].calledAt) = DayOf(observed[p].returnedAt)

FirstCallWithinMonth(p) ==
    observed[p].clean /\ MonthOf(observed[p].calledAt) = MonthOf(observed[p].returnedAt)

ResetWritten(p, at) ==
    /\ pc[p] = at /\ pc'[p] # at
    /\ frame'[p].failed = frame[p].failed

\* C20: a daily reset update is only carried out while lastResetDaily is not
\* yet on the calendar day of the update's timestamp, and a monthly one while
\* lastResetMonthly is not yet in its calendar month: one reset write for
\* each transition, whatever the interleaving of the calls
C20_ResetWrittenOncePerTransition ==
    [][\A p \in Procs : \A r \in findUnique(quota, frame[p].userId) :
          /\ ResetWritten(p, "resetDailyWrite") =>
                 DayOf(r.lastResetDaily) # DayOf(frame[p].now)
          /\ ResetWritten(p, "resetMonthlyWrite") =>
                 MonthOf(r.lastResetMonthly) # MonthOf(frame[p].now)]_vars


-----------------------------------------------------------------------------
(* Claims about the library functions *)

\* sub is a subsequence of sq: some strictly increasing choice of positions
IsSubsequence(sub, sq) ==
    \E pos \in [1..Len(sub) -> 1..Len(sq)] :
        /\ \A i \in 1..(Len(sub) - 1) : pos[i] < pos[i + 1]
        /\ \A i \in 1..Len(sub) : sub[i] = sq[pos[i]]

\* the number of members of sq that pass Test
CountAtLeast(sq, min) == Cardinality({i \in 1..Len(sq) : sq[i].score >= min})

\* a query with a topK and a minScore that came back
QueryAnswered ==
    /\ call.fn = "querySimilarMessages" /\ call.configured /\ ~call.out.raised
    /\ call.topK # Undefined /\ call.minScore # Undefined

\* C21, the filter: the matches returned are a subsequence of the raw matches,
\* in their order, made of exactly the raw matches with score >= minScore
C21_MatchesFilteredInOrder ==
    QueryAnswered =>
        /\ IsSubsequence(call.out.matches, call.out.raw)
        /\ \A i \in 1..Len(call.out.matches) : call.out.matches[i].score >= call.minScore
        /\ Len(call.out.matches) = CountAtLeast(call.out.raw, call.minScore)

\* C21: the matches returned are filtered in order and number at most topK,
\* for every topK >= 0
C21_MatchesFilteredAndCapped ==
    QueryAnswered =>
        /\ IsSubsequence(call.out.matches, call.out.raw)
        /\ \A i \in 1..Len(call.out.matches) : call.out.matches[i].score >= call.minScore
        /\ Len(call.out.matches) = CountAtLeast(call.out.raw, call.minScore)
        /\ Len(call.out.matches) <= call.topK

\* raw scores 90, 75, 50 with minScore 70 and topK 3 gave the first two
C21_Witness ==
    /\ QueryAnswered /\ call.topK = 3 /\ call.minScore = 70
    /\ Len(call.out.raw) = 3 /\ Len(call.out.matches) = 2
    /\ call.out.raw[1].score = 90 /\ call.out.raw[2].score = 75
    /\ call.out.raw[3].score = 50
    /\ call.out.matches = SubSeq(call.out.raw, 1, 2)


-----------------------------------------------------------------------------
(* Claims about the quota rows *)

\* C22: each user has at most one quota row in every reachable state, no step
\* deletes a row, and a row that a step creates has the default limits
\* (0.045 and 1.35 USD) and both cached counters 0
C22_OneDefaultRowPerUser ==
    /\ [](\A u \in Users : Cardinality(findUnique(quota, u)) <= 1)
    /\ [][/\ \A r \in quota : findUnique(quota', r.userId) # {}
          /\ \A r \in quota' :
                findUnique(quota, r.userId) = {} =>
                    /\ r.dailyLimit = DefaultDailyLimit
                    /\ r.monthlyLimit = DefaultMonthlyLimit
                    /\ r.currentDaily = 0 /\ r.currentMonthly = 0]_vars

\* two concurrent first requests of one user: one created the row, the other's
\* create was refused by the unique index
C22_Witness ==
    \E p \in Procs, u \in Users :
        /\ "unique" \in frame[p].failed /\ frame[p].userId = u
        /\ Cardinality(findUnique(quota, u)) = 1
        /\ \A r \in findUnique(quota, u) : r.dailyLimit = DefaultDailyLimit


\* a <= b as numbers: false as soon as either is NaN
NumLeq(a, b) == a # NaN /\ b # NaN /\ a <= b

\* the pricing call is non-negative, non-decreasing in each token count, and
\* priced as the default model when the table has no price for its model
PricedWell ==
    /\ call.fn = "calculateChatCompletionCost" =>
         /\ NumLeq(0, call.out)
         /\ \A n \in TokenChoices :
              /\ n >= call.inputTokens =>
                   NumLeq(call.out, calculateChatCompletionCost(
                                        call.model, n, call.outputTokens))
              /\ n >= call.outputTokens =>
                   NumLeq(call.out, calculateChatCompletionCost(
                                        call.model, call.inputTokens, n))
         /\ call.model \notin ChatModels =>
              call.out = calculateChatCompletionCost(
                             "gpt-3.5-turbo", call.inputTokens, call.outputTokens)
    /\ call.fn = "calculateEmbeddingCost" =>
         /\ NumLeq(0, call.out)
         /\ \A n \in TokenChoices :
              n >= call.tokens =>
                  NumLeq(call.out, calculateEmbeddingCost(call.model, n))
         /\ call.model \notin EmbeddingModels =>
              call.out = calculateEmbeddingCost("text-embedding-3-small", call.tokens)
    /\ call.fn = "calculatePineconeCost" => NumLeq(0, call.out)

\* the call names a model, and that name is not one of an inherited member
PlainModelKey ==
    call.fn \in {"calculateChatCompletionCost", "calculateEmbeddingCost"} =>
        call.model \notin ObjectPrototypeKeys

\* C23: for all token counts and every model key the cost is non-negative and
\* non-decreasing in each token count, and the default model's cost for a key
\* the table lacks
C23_CostMonotoneForEveryKey == PricedWell

\* C23, keys that name no inherited member: the same
C23_CostMonotoneForPlainKeys == PlainModelKey => PricedWell

\* a completion of a model the table lacks was priced as gpt-3.5-turbo
C23_Witness ==
    /\ call.fn = "calculateChatCompletionCost" /\ call.model = "gpt-5"
    /\ call.inputTokens = 2 /\ call.outputTokens = 1
    /\ call.out = 2 * 150 + 200

\* C23, the ledger: every UsageRecord has estimatedCost >= 0
C23_LedgerCostsNonNegative ==
    \A r \in BagToSet(ledger) : NumLeq(0, r.estimatedCost)


-----------------------------------------------------------------------------
(* Claims about the reset step *)

\* the store operations of p's daily (monthly) reset have not thrown
DailyResetSound(f) == f.failed \cap {"resetDaily", "resetDailyWrite"} = {}
MonthlyResetSound(f) == f.failed \cap {"resetMonthly", "resetMonthlyWrite"} = {}

-----------------------------------------------------------------------------
(* Claims about the decision *)

\* C25: the daily limit is checked first.  A result with figures whose daily
\* usage plus estimate is above dailyLimit is a refusal with the reason
\* "Daily limit exceeded", whatever the monthly figures; the reason "Monthly
\* limit exceeded" comes only with a daily projection within dailyLimit
C25_DailyCheckedFirst ==
    \A p \in Procs :
        (CheckReturned(p) /\ result[p].figures) =>
            LET r == result[p]
                est == frame[p].estimate
            IN  /\ r.dailyUsage + est > r.dailyLimit =>
                     ~r.allowed /\ r.reason = "Daily limit exceeded"
                /\ r.reason = "Monthly limit exceeded" =>
                     /\ ~r.allowed
                     /\ r.dailyUsage + est <= r.dailyLimit
                     /\ r.monthlyUsage + est > r.monthlyLimit

\* both projections are above their limits and the reason names the daily one
C25_Witness ==
    \E p \in Procs :
        /\ CheckReturned(p) /\ result[p].figures
        /\ result[p].dailyUsage > 0 /\ frame[p].estimate > 0
        /\ result[p].dailyUsage + frame[p].estimate > result[p].dailyLimit
        /\ result[p].monthlyUsage + frame[p].estimate > result[p].monthlyLimit
        /\ result[p].reason = "Daily limit exceeded"

\* only the monthly projection is above its limit and the reason names it
C25_MonthlyReasonReached ==
    \E p \in Procs :
        /\ CheckReturned(p) /\ result[p].reason = "Monthly limit exceeded"


\* the store operations that write a reset
ResetWrites == {"resetDailyWrite", "resetMonthlyWrite"}

\* some reset update of the call threw, and nothing else did
OnlyResetWriteFailed(f) == f.failed # {} /\ f.failed \subseteq ResetWrites

\* C26: a reset update that fails leaves the row as it is, lastReset stamps
\* included, and a checkUserLimits in which nothing but reset updates failed
\* returns the decision taken on the ledger sums and the row's limits, with
\* its figures, not the fail-open result
C26_FailedResetUpdateIsSoft ==
    /\ [](\A p \in Procs :
            (CheckReturned(p) /\ OnlyResetWriteFailed(frame[p])) =>
               LET r == result[p]
                   est == frame[p].estimate
               IN  /\ r.figures
                   /\ r.reason # "Error checking limits, request allowed"
                   /\ r.allowed = FALSE <=>
                        \/ r.dailyUsage + est > r.dailyLimit
                        \/ r.monthlyUsage + est > r.monthlyLimit
                   /\ \E row \in findUnique(quota, frame[p].userId) :
                        /\ row.dailyLimit = r.dailyLimit
                        /\ row.monthlyLimit = r.monthlyLimit)
    /\ [][\A p \in Procs :
            /\ (pc[p] \in ResetWrites /\ pc'[p] # pc[p] /\ pc[p] \in frame'[p].failed) =>
                  quota' = quota
            /\ (pc[p] = "resetDailyWrite" /\ pc'[p] # pc[p]) => pc'[p] = "resetMonthly"
            /\ (pc[p] = "resetMonthlyWrite" /\ pc'[p] # pc[p]) =>
                  pc'[p] = AfterResets(frame[p].fn)
            /\ (pc[p] = "daily" /\ pc'[p] = "monthly"
                /\ OnlyResetWriteFailed(frame'[p])) =>
                  frame'[p].actualDaily = DaySum(ledger, frame[p].userId, clock)
            /\ (pc[p] = "monthly" /\ CheckReturned(p)'
                /\ OnlyResetWriteFailed(frame'[p])) =>
                  /\ result'[p].dailyUsage = frame[p].actualDaily
                  /\ result'[p].monthlyUsage = MonthSum(ledger, frame[p].userId, clock)
       ]_vars

\* a check whose daily reset update failed has refused the request on the
\* figures of the ledger, and lastResetDaily is still on an earlier day
C26_Witness ==
    \E p \in Procs : \E row \in findUnique(quota, frame[p].userId) :
        /\ CheckReturned(p) /\ frame[p].failed = {"resetDailyWrite"}
        /\ result[p].figures /\ ~result[p].allowed
        /\ result[p].dailyUsage > 0
        /\ DayOf(row.lastResetDaily) < DayOf(clock)


-----------------------------------------------------------------------------
(* Claims about the reconciliation *)

\* every turn that was started has responded, and every reconciliation that
\* was dispatched has ended
Quiescent ==
    /\ \A t \in Turns : pc[t] \in {"idle", "done"} /\ pc[ReconOf(t)] \in {"idle", "done"}
    /\ \E t \in Turns : pc[ReconOf(t)] = "done"

\* no update or create of the quota table has thrown in any call
NoWriteFailed ==
    \A p \in Procs :
        frame[p].failed \cap
            {"create1", "create2", "unique", "updateWrite",
             "resetDailyWrite", "resetMonthlyWrite"} = {}

\* C27: once every turn and every reconciliation has ended, with no failed
\* store write, the cached counters of the user's row are the ledger's sums
\* for the current day and month, for every interleaving and also after a
\* failed ledger read
C27_CacheEqualsLedgerAtRest ==
    (Quiescent /\ NoWriteFailed) =>
        \A r \in quota :
            /\ r.currentDaily = DaySum(ledger, r.userId, clock)
            /\ r.currentMonthly = MonthSum(ledger, r.userId, clock)


-----------------------------------------------------------------------------
(* Claims about vector-store usage records *)

\* how many records of an operation the ledger holds
RecordsOf(operation) ==
    LET rs == {r \in BagToSet(ledger) : r.operation = operation}
    IN  IF rs = {} THEN 0 ELSE BagCardinality([r \in rs |-> CopiesIn(r, ledger)])

\* how many calls of a kind the turns have sent out
CallsSent(kind) ==
    LET RECURSIVE Sum(_)
        Sum(ts) == IF ts = {} THEN 0
                   ELSE LET t == CHOOSE x \in ts : TRUE
                        IN  turn[t].calls[kind] + Sum(ts \ {t})
    IN  Sum(Turns)

\* C28: the ledger holds no more QUERY records than queries were sent to the
\* vector index and no more UPSERT records than upserts were sent; with the
\* index not configured it holds none of either
C28_VectorRecordOnlyForSentCall ==
    /\ RecordsOf("QUERY") <= CallsSent("query")
    /\ RecordsOf("UPSERT") <= CallsSent("upsert")
    /\ ~pineconeConfigured => (RecordsOf("QUERY") = 0 /\ RecordsOf("UPSERT") = 0)

\* C28, the configured index: every vector-store record follows a call sent
C28_RecordFollowsCallWhenConfigured ==
    pineconeConfigured =>
        /\ RecordsOf("QUERY") <= CallsSent("query")
        /\ RecordsOf("UPSERT") <= CallsSent("upsert")

\* a turn on a configured index has logged its query and both upserts
C28_Witness ==
    /\ pineconeConfigured
    /\ RecordsOf("QUERY") = 1 /\ CallsSent("query") = 1
    /\ RecordsOf("UPSERT") = 2 /\ CallsSent("upsert") = 2


-----------------------------------------------------------------------------
(* Claims about the limit status *)

\* checkUserLimits on the row and the sums of the status call refuses est
RefusedByCheck(est) ==
    ~LimitDecision(call.userLimit, call.daily, call.monthly, est).allowed

\* est does not fit under the limits the status reports
OverReportedLimits(est) ==
    \/ Projected(call.daily, est) > call.out.dailyLimit
    \/ Projected(call.monthly, est) > call.out.monthlyLimit

\* the status reports the limits the check enforces, and no negative remainder
StatusAgreesWithCheck ==
    LET chk == LimitDecision(call.userLimit, call.daily, call.monthly, 0)
    IN  /\ call.out.dailyLimit = chk.dailyLimit
        /\ call.out.monthlyLimit = chk.monthlyLimit
        /\ \A est \in EstimateChoices : RefusedByCheck(est) <=> OverReportedLimits(est)
        /\ call.out.dailyRemaining >= 0 /\ call.out.monthlyRemaining >= 0

\* C29: for every pair of limits setUserLimits can store, 0 included, the
\* limits getUserLimitStatus reports are the limits checkUserLimits enforces
\* in the same store state, and the remaining amounts are not negative
C29_StatusReportsEnforcedLimits ==
    call.fn = "getUserLimitStatus" => StatusAgreesWithCheck

\* C29, limits other than 0: the same
C29_StatusReportsNonZeroLimits ==
    (/\ call.fn = "getUserLimitStatus"
     /\ call.userLimit.dailyLimit # 0 /\ call.userLimit.monthlyLimit # 0) =>
        StatusAgreesWithCheck

\* a status taken with usage above a stored daily limit: nothing remains
C29_Witness ==
    /\ call.fn = "getUserLimitStatus"
    /\ call.userLimit.dailyLimit = estimatedCost
    /\ call.userLimit.monthlyLimit = DefaultDailyLimit
    /\ call.daily > 0 /\ call.out.dailyLimit = estimatedCost
    /\ call.out.dailyRemaining = estimatedCost - call.daily
    /\ RefusedByCheck(estimatedCost)


-----------------------------------------------------------------------------
(* Claims about the figures of a result *)

\* C30: every result of checkUserLimits that carries usage figures has
\* dailyUsage <= monthlyUsage, also when the clock or the ledger moves between
\* the two ledger reads
C30_DailyWithinMonthly ==
    \A p \in Procs :
        (CheckReturned(p) /\ result[p].figures) =>
            result[p].dailyUsage <= result[p].monthlyUsage

====
